---------------------------- MODULE Spec2Model ----------------------------
(***************************************************************************)
(* A model of dimod's BinaryPolynomial (dimod/higherorder/polynomial.py):  *)
(* a mutable mapping from terms (frozensets of variable labels) to biases, *)
(* with construction, item assignment and deletion, degree, energies,      *)
(* relabel_variables, normalize, scale and the hising / hubo converters.   *)
(*                                                                         *)
(* The polynomial's dict `_terms` is a sequence of entries in insertion    *)
(* order (a Python dict iterates in insertion order, and normalize and     *)
(* relabel_variables depend on that order).  Biases are exact rationals    *)
(* <<numerator, denominator>>; floating-point rounding is not modelled.    *)
(* Variable labels are integers.                                           *)
(***************************************************************************)
EXTENDS Integers, Sequences, FiniteSets

VARIABLES terms, vartype, op, arg, pre, out

vars == <<terms, vartype, op, arg, pre, out>>

(***************************************************************************)
(* Bounds of the model.                                                    *)
(***************************************************************************)
\* the largest number of (term, bias) pairs handed to the constructor
MaxTerms == 2
\* biases handed to the program are the integers -MaxBias .. MaxBias
MaxBias == 2
\* the longest tuple of labels handed to the constructor as a term
MaxTupleLen == 2
\* the largest number of assignments in one batch given to energies
MaxSamples == 2

\* the variable labels the callers use
Vars == {1, 2, 3}

Vartypes == {"SPIN", "BINARY"}

None == "None"

(***************************************************************************)
(* Exact rational arithmetic for the biases.                               *)
(***************************************************************************)
Abs(x) == IF x < 0 THEN -x ELSE x

RECURSIVE Gcd(_, _)
Gcd(a, b) == IF b = 0 THEN a ELSE Gcd(b, a % b)

\* the rational n/d in lowest terms with a positive denominator (d # 0)
Rat(n, d) ==
    LET g == Gcd(Abs(n), Abs(d))
        s == IF d < 0 THEN -1 ELSE 1
    IN  <<(s * n) \div g, (s * d) \div g>>

Int2Rat(k) == <<k, 1>>
Zero == <<0, 1>>
One == <<1, 1>>

RAdd(x, y) == Rat(x[1] * y[2] + y[1] * x[2], x[2] * y[2])
RMul(x, y) == Rat(x[1] * y[1], x[2] * y[2])
\* x / y, y # 0
RDiv(x, y) == Rat(x[1] * y[2], x[2] * y[1])
RLess(x, y) == x[1] * y[2] < y[1] * x[2]
RLeq(x, y) == x[1] * y[2] <= y[1] * x[2]
RAbs(x) == <<Abs(x[1]), x[2]>>
RNeg(x) == <<-x[1], x[2]>>
RMax(x, y) == IF RLess(x, y) THEN y ELSE x

Biases == {Int2Rat(k) : k \in -MaxBias..MaxBias}

(***************************************************************************)
(* Sequences and Python's dict, kept as a sequence of entries              *)
(* [term |-> key, bias |-> value] in insertion order.                      *)
(***************************************************************************)
Range(s) == {s[i] : i \in DOMAIN s}

SeqsUpTo(S, n) == UNION {[1..k -> S] : k \in 0..n}

\* the position of key k in dict d, 0 when absent
IndexOf(d, k) ==
    IF \E i \in DOMAIN d : d[i].term = k
    THEN CHOOSE i \in DOMAIN d : d[i].term = k
    ELSE 0

Keys(d) == {d[i].term : i \in DOMAIN d}

HasKey(d, k) == k \in Keys(d)

\* d[k]
DictGet(d, k) == d[IndexOf(d, k)].bias

\* d[k] = v : an existing key keeps its position, a new key is appended
DictSet(d, k, v) ==
    IF HasKey(d, k)
    THEN [d EXCEPT ![IndexOf(d, k)].bias = v]
    ELSE Append(d, [term |-> k, bias |-> v])

\* del d[k], k present
DictDel(d, k) ==
    LET i == IndexOf(d, k)
    IN  [j \in 1..(Len(d) - 1) |-> IF j < i THEN d[j] ELSE d[j + 1]]

\* the dict as a mapping, forgetting the order (dict equality)
AsMap(d) == [k \in Keys(d) |-> DictGet(d, k)]

\* the elements of a finite set of integers in ascending order
RECURSIVE SetToSeq(_)
SetToSeq(S) ==
    IF S = {} THEN <<>>
    ELSE LET m == CHOOSE x \in S : \A y \in S : x <= y
         IN  <<m>> \o SetToSeq(S \ {m})

(***************************************************************************)
(* asfrozenset and the constructor.  A term handed to the program is a     *)
(* tuple of labels, in any order and with repetitions.                     *)
(***************************************************************************)
asfrozenset(term) == Range(term)

\* lines 46-50 with terms[term] = bias in place of terms[term] += bias
RECURSIVE AggregateOverwrite(_, _)
AggregateOverwrite(acc, poly) ==
    IF poly = <<>> THEN acc
    ELSE AggregateOverwrite(DictSet(acc, asfrozenset(Head(poly)[1]), Head(poly)[2]), Tail(poly))

\* the loop of __init__: repeated terms are aggregated
RECURSIVE Aggregate(_, _)
Aggregate(acc, poly) ==
    IF poly = <<>> THEN acc
    ELSE LET term == asfrozenset(Head(poly)[1])
             bias == Head(poly)[2]
         IN  Aggregate(IF HasKey(acc, term)
                       THEN DictSet(acc, term, RAdd(DictGet(acc, term), bias))
                       ELSE DictSet(acc, term, bias),
                       Tail(poly))

\* BinaryPolynomial(poly, vartype)._terms for a sequence of <<term, bias>> pairs
\* (a mapping is handed over as its items)
BinaryPolynomial(poly) == Aggregate(<<>>, poly)

\* self.variables
Variables(t) == UNION Keys(t)

\* copy(): the constructor run on the polynomial's own items
Items(t) == [i \in DOMAIN t |-> <<SetToSeq(t[i].term), t[i].bias>>]

Copy(t) == BinaryPolynomial(Items(t))

(***************************************************************************)
(* degree.  map(len, self._terms.values()) takes len() of each bias; a     *)
(* bias is a number, and len() of a number raises TypeError.               *)
(***************************************************************************)
LenOfBias(bias) == "TypeError"

\* max of a non-empty set of naturals
SetMax(S) == CHOOSE n \in S : \A k \in S : k <= n

Degree(t) ==
    IF Len(t) = 0 THEN [status |-> "ok", value |-> 0]
    ELSE LET lens == {LenOfBias(t[i].bias) : i \in DOMAIN t}
         IN  IF "TypeError" \in lens
             THEN [status |-> "TypeError", value |-> None]
             ELSE [status |-> "ok", value |-> SetMax(lens)]

\* the size of the largest stored term key, 0 for no terms
MaxTermSize(t) ==
    IF Len(t) = 0 THEN 0 ELSE SetMax({Cardinality(k) : k \in Keys(t)})

(***************************************************************************)
(* relabel_variables.  A mapping is a function from old labels to new      *)
(* labels.  Labels are integers, so every target is hashable and the       *)
(* TypeError branch of lines 127-131 is never taken.                       *)
(***************************************************************************)
\* mapping.get(v, v)
MapGet(mapping, v) == IF v \in DOMAIN mapping THEN mapping[v] ELSE v

\* The labels an intermediate label can be: the labels polynomials are
\* written with, and three labels that no polynomial uses.
IntermediateLabels == Vars \cup {4, 5, 6}

\* The choices of n intermediate labels.  The helper is told the mapping and
\* its old and new labels and nothing else (line 141), so all it can keep
\* clear of is `used`, the labels of the mapping: every set of n other labels
\* is a possible answer, a variable of the polynomial that the mapping does
\* not mention included.
FreshLabels(used, n) ==
    {SetToSeq(S) : S \in {X \in SUBSET (IntermediateLabels \ used) : Cardinality(X) = n}}

\* dimod.utilities.resolve_label_conflict(mapping, old_labels, new_labels):
\* self-labels are dropped; an entry old -> new with old among the new labels
\* or new among the old labels goes through an intermediate label outside
\* the mapping's labels; any other entry is applied in the first phase.  The
\* value is the set of the pairs of mappings the helper can return, one for
\* each choice of intermediate labels.
ResolveLabelConflict(mapping, old_labels, new_labels) ==
    LET moved == {k \in old_labels : mapping[k] # k}
        conflicting == {k \in moved : k \in new_labels \/ mapping[k] \in old_labels}
        cs == SetToSeq(conflicting)
        pos(k) == CHOOSE i \in DOMAIN cs : cs[i] = k
    IN  {[old_to_intermediate |->
              [k \in moved |-> IF k \in conflicting THEN fs[pos(k)] ELSE mapping[k]],
          intermediate_to_new |->
              [l \in Range(fs) |-> mapping[cs[CHOOSE i \in DOMAIN fs : fs[i] = l]]]] :
         fs \in FreshLabels(old_labels \cup new_labels, Len(cs))}

\* lines 147-152 without the `del self[oldterm]`
RECURSIVE RewriteTermsKeepOld(_, _, _)
RewriteTermsKeepOld(d, items, mapping) ==
    IF items = <<>> THEN d
    ELSE LET oldterm == Head(items).term
             newterm == {MapGet(mapping, v) : v \in oldterm}
         IN  RewriteTermsKeepOld(IF newterm # oldterm
                                 THEN DictSet(d, newterm, Head(items).bias)
                                 ELSE d,
                                 Tail(items), mapping)

\* lines 147-152: the loop over list(self.items()), a snapshot of the entries
RECURSIVE RewriteTerms(_, _, _)
RewriteTerms(d, items, mapping) ==
    IF items = <<>> THEN d
    ELSE LET oldterm == Head(items).term
             newterm == {MapGet(mapping, v) : v \in oldterm}
         IN  RewriteTerms(IF newterm # oldterm
                          THEN DictDel(DictSet(d, newterm, Head(items).bias), oldterm)
                          ELSE d,
                          Tail(items), mapping)

\* lines 134-137: a new label that is a variable not being relabeled
LabelConflict(t, mapping) ==
    \E v \in Range(mapping) : v \in Variables(t) /\ v \notin DOMAIN mapping

\* lines 127-154, in place on the entries t: the outcomes the call can have,
\* each a status and the entries left behind (an exception leaves whatever
\* was written before it).  There is one outcome unless the labels overlap;
\* then there is one for each pair of mappings the helper can return, the
\* second call (line 144) being made only when the first (line 143) returns.
RECURSIVE RelabelVariables(_, _)
RelabelVariables(t, mapping) ==
    LET old_labels == DOMAIN mapping
        new_labels == Range(mapping)
    IN  IF LabelConflict(t, mapping)
        THEN {[status |-> "ValueError", terms |-> t]}
        ELSE IF old_labels \cap new_labels # {}
        THEN UNION {UNION {IF first.status # "ok"
                           THEN {first}
                           ELSE RelabelVariables(first.terms, r.intermediate_to_new) :
                           first \in RelabelVariables(t, r.old_to_intermediate)} :
                    r \in ResolveLabelConflict(mapping, old_labels, new_labels)}
        ELSE {[status |-> "ok", terms |-> RewriteTerms(t, t, mapping)]}

Mappings == UNION {[D -> Vars] : D \in SUBSET Vars}

(***************************************************************************)
(* The polynomials the model starts from: the constructor run on at most   *)
(* MaxTerms pairs whose terms are subsets of Vars.                         *)
(***************************************************************************)
SortedTuples == {SetToSeq(S) : S \in SUBSET Vars}

Constructed(biases) ==
    {BinaryPolynomial(p) : p \in SeqsUpTo(SortedTuples \X biases, MaxTerms)}

\* relabel_variables moves biases and never computes with them: two values
\* tell an overwritten bias from a kept one
RelabelBiases == {Int2Rat(1), Int2Rat(2)}

(***************************************************************************)
(* energies and energy.  as_samples hands over the labels (a list) and     *)
(* the samples (one row of values per assignment, one column per label).   *)
(***************************************************************************)
\* dict(zip(label, idx)): the column of label v (the last one, if repeated)
LabelDict(labels, v) == SetMax({i \in DOMAIN labels : labels[i] = v})

RECURSIVE Prod(_, _)
Prod(S, f) ==
    IF S = {} THEN One
    ELSE LET v == CHOOSE x \in S : TRUE
         IN  RMul(Int2Rat(f[v]), Prod(S \ {v}, f))

\* np.prod([samples[:, labeldict[v]] for v in term], axis=0) for row i
TermProduct(term, labels, row) ==
    Prod(term, [v \in term |-> row[LabelDict(labels, v)]])

\* lines 114-118: one pass over the terms, adding to the whole vector
RECURSIVE Accumulate(_, _, _, _)
Accumulate(energies, items, labels, samples) ==
    IF items = <<>> THEN [status |-> "ok", value |-> energies]
    ELSE LET term == Head(items).term
             bias == Head(items).bias
         IN  IF term = {}
             THEN Accumulate([i \in DOMAIN energies |-> RAdd(energies[i], bias)],
                             Tail(items), labels, samples)
             ELSE IF ~(term \subseteq Range(labels))
             THEN [status |-> "KeyError", value |-> None]
             ELSE Accumulate(
                      [i \in DOMAIN energies |->
                          RAdd(energies[i], RMul(TermProduct(term, labels, samples[i]), bias))],
                      Tail(items), labels, samples)

\* lines 106-120.  idx, label = zip(*enumerate(labels)) unpacks nothing into
\* two names when there is no label: ValueError
Energies(t, labels, samples) ==
    IF labels = <<>> THEN [status |-> "ValueError", value |-> None]
    ELSE Accumulate([i \in DOMAIN samples |-> Zero], t, labels, samples)

\* lines 102-104: energies on the one sample, unpacked
Energy(t, labels, sample) ==
    LET r == Energies(t, labels, <<sample>>)
    IN  IF r.status = "ok" THEN [status |-> "ok", value |-> r.value[1]] ELSE r

\* the polynomial's value on an assignment (a function from labels to
\* values): the sum over the terms of bias * product of the values
RECURSIVE PolyValue(_, _)
PolyValue(t, assignment) ==
    IF t = <<>> THEN Zero
    ELSE RAdd(RMul(Head(t).bias, Prod(Head(t).term, assignment)),
              PolyValue(Tail(t), assignment))

(***************************************************************************)
(* relabel_variables(mapping, inplace).  Not in place, the work is done on *)
(* a copy, which is returned; self is not touched.                         *)
(***************************************************************************)
Relabel(mapping, inplace) ==
    /\ \E r \in RelabelVariables(IF inplace THEN terms ELSE Copy(terms), mapping) :
        /\ terms' = IF inplace THEN r.terms ELSE terms
        /\ op' = "relabel_variables"
        /\ arg' = [mapping |-> mapping, inplace |-> inplace]
        /\ pre' = terms
        /\ out' = [status |-> r.status,
                   value |-> IF r.status = "ok" THEN r.terms ELSE None]
        /\ UNCHANGED vartype

InitRelabel ==
    /\ terms \in Constructed(RelabelBiases)
    /\ vartype = "SPIN"
    /\ op = "new"
    /\ arg = None
    /\ pre = <<>>
    /\ out = None

\* one call on each constructed polynomial
RelabelOnce ==
    /\ op = "new"
    /\ \E mapping \in Mappings, inplace \in BOOLEAN : Relabel(mapping, inplace)

NextRelabel == RelabelOnce

SpecRelabel == InitRelabel /\ [][NextRelabel]_vars

(***************************************************************************)
(* Properties of relabel_variables.                                        *)
(***************************************************************************)
Injective(f) == \A x, y \in DOMAIN f : f[x] = f[y] => x = y

Inverse(f) == [y \in Range(f) |-> CHOOSE x \in DOMAIN f : f[x] = y]

Relabeled == op = "relabel_variables"

\* the polynomial the call worked on: self in place, else the returned copy
Result == IF arg.inplace THEN terms ELSE out.value

\* term t of the polynomial before the call, rewritten by the mapping
Image(t) == {MapGet(arg.mapping, v) : v \in t}

\* C1: a call of relabel_variables in place that ends in an error leaves the
\* term -> bias mapping exactly as it was before the call.
C1_ErrorLeavesPolynomialUnchanged ==
    (Relabeled /\ arg.inplace /\ out.status # "ok") => AsMap(terms) = AsMap(pre)

\* C2: for an injective mapping defined on all the variables of the
\* polynomial, relabel_variables(mapping) succeeds, and then
\* relabel_variables(the inverse mapping) succeeds and gives back the original
\* term -> bias mapping.
C2_RelabelThenInverseRestores ==
    (Relabeled /\ Injective(arg.mapping) /\ Variables(pre) \subseteq DOMAIN arg.mapping)
    => /\ out.status = "ok"
       /\ \A back \in RelabelVariables(Result, Inverse(arg.mapping)) :
              back.status = "ok" /\ AsMap(back.terms) = AsMap(pre)

C2_Witness ==
    /\ Relabeled /\ arg.inplace /\ out.status = "ok"
    /\ Injective(arg.mapping) /\ Variables(pre) \subseteq DOMAIN arg.mapping
    /\ DOMAIN arg.mapping \cap Range(arg.mapping) # {}
    /\ Len(pre) = 2 /\ Cardinality(Variables(pre)) = 3
    /\ AsMap(terms) # AsMap(pre)

\* the assignments of -1 / +1 to a set of labels
SpinAssignments(labels) == [labels -> {-1, 1}]

\* the energy of polynomial t on assignment a, as energy computes it, with
\* every label of a renamed by the mapping when `renamed`
EnergyOn(t, a, renamed) ==
    LET ls == SetToSeq(DOMAIN a)
    IN  Energy(t, [i \in DOMAIN ls |-> IF renamed THEN MapGet(arg.mapping, ls[i]) ELSE ls[i]],
               [i \in DOMAIN ls |-> a[ls[i]]])

\* C3: relabeling by an injective mapping whose old and new labels overlap (a
\* swap, a cycle), on a polynomial that may hold variables the mapping does
\* not mention, succeeds and is the simultaneous substitution: every original
\* term t with bias w gives bias w on the term {mapping.get(v, v) : v in t},
\* there are no other terms, and the energy on the correspondingly permuted
\* assignment is the original energy.  A mapping one of whose new labels is a
\* variable it does not relabel is left out: that call has to raise.
C3_OverlappingMappingIsSimultaneousSubstitution ==
    (/\ Relabeled
     /\ Injective(arg.mapping)
     /\ DOMAIN arg.mapping \cap Range(arg.mapping) # {}
     /\ ~LabelConflict(pre, arg.mapping))
    => /\ out.status = "ok"
       /\ \A i \in DOMAIN pre :
              HasKey(Result, Image(pre[i].term))
              /\ DictGet(Result, Image(pre[i].term)) = pre[i].bias
       /\ Keys(Result) = {Image(pre[i].term) : i \in DOMAIN pre}
       /\ \A a \in SpinAssignments(Variables(pre) \cup DOMAIN arg.mapping) :
              EnergyOn(Result, a, TRUE) = EnergyOn(pre, a, FALSE)

\* C10: a call of relabel_variables that returns without an error never merges
\* variables: the number of distinct variables and the number of terms are
\* unchanged, and every term's bias is found on the rewritten term.
C10_NeverMergesVariables ==
    (Relabeled /\ out.status = "ok")
    => /\ Cardinality(Variables(Result)) = Cardinality(Variables(pre))
       /\ Len(Result) = Len(pre)
       /\ \A i \in DOMAIN pre :
              HasKey(Result, Image(pre[i].term))
              /\ DictGet(Result, Image(pre[i].term)) = pre[i].bias

(***************************************************************************)
(* The converters.  h and J are dicts (entries in insertion order); h is   *)
(* keyed by label, J and H by tuple(term).  tuple(term) lists the labels   *)
(* of a frozenset in some order; the ascending one is taken, the way back  *)
(* through asfrozenset forgets it.                                         *)
(***************************************************************************)
\* lines 216-229
RECURSIVE ToHisingLoop(_, _)
ToHisingLoop(acc, items) ==
    IF items = <<>> THEN acc
    ELSE LET term == Head(items).term
             bias == Head(items).bias
         IN  ToHisingLoop(
                 IF Cardinality(term) = 0
                 THEN [acc EXCEPT !.offset = RAdd(acc.offset, bias)]
                 ELSE IF Cardinality(term) = 1
                 THEN [acc EXCEPT !.h = DictSet(acc.h, CHOOSE v \in term : TRUE, bias)]
                 ELSE [acc EXCEPT !.J = DictSet(acc.J, SetToSeq(term), bias)],
                 Tail(items))

to_hising(t) == ToHisingLoop([h |-> <<>>, J |-> <<>>, offset |-> Zero], t)

\* poly.update(J)
RECURSIVE DictUpdate(_, _)
DictUpdate(d, other) ==
    IF other = <<>> THEN d
    ELSE DictUpdate(DictSet(d, Head(other).term, Head(other).bias), Tail(other))

\* lines 209-214.  The dict `poly` is keyed by tuples; the key frozenset([])
\* of the offset equals no tuple, so it is a new, last entry.
from_hising(h, J, offset) ==
    LET linear == [i \in DOMAIN h |-> [term |-> <<h[i].term>>, bias |-> h[i].bias]]
        poly == DictUpdate(linear, J)
        items == [i \in DOMAIN poly |-> <<poly[i].term, poly[i].bias>>]
    IN  [status |-> "ok",
         terms |-> BinaryPolynomial(IF offset # None
                                    THEN Append(items, <<<<>>, offset>>)
                                    ELSE items),
         vartype |-> "SPIN"]

\* lines 236-239
to_hubo(t) ==
    [H |-> LET nonempty == SelectSeq(t, LAMBDA e : e.term # {})
           IN  [i \in DOMAIN nonempty |->
                   [term |-> SetToSeq(nonempty[i].term), bias |-> nonempty[i].bias]],
     offset |-> IF HasKey(t, {}) THEN DictGet(t, {}) ELSE Zero]

\* lines 232-234: `poly` is not defined, so the assignment raises NameError;
\* with no offset the method falls off its end and returns None
from_hubo(H, offset) ==
    IF offset # None
    THEN [status |-> "NameError", terms |-> None, vartype |-> None]
    ELSE [status |-> "ok", terms |-> None, vartype |-> None]

(***************************************************************************)
(* The container: item assignment and deletion, degree, the converters.    *)
(***************************************************************************)
ItemBiases == {Int2Rat(-1), Int2Rat(1), Int2Rat(2)}

\* self[term] = bias (the model holds at most MaxTerms terms)
SetItem(term, bias) ==
    /\ HasKey(terms, asfrozenset(term)) \/ Len(terms) < MaxTerms
    /\ terms' = DictSet(terms, asfrozenset(term), bias)
    /\ op' = "__setitem__"
    /\ out' = [status |-> "ok", value |-> None]
    /\ UNCHANGED <<vartype, arg, pre>>

\* del self[term]
DelItem(term) ==
    /\ terms' = IF HasKey(terms, asfrozenset(term))
                THEN DictDel(terms, asfrozenset(term))
                ELSE terms
    /\ op' = "__delitem__"
    /\ out' = [status |-> IF HasKey(terms, asfrozenset(term)) THEN "ok" ELSE "KeyError",
               value |-> None]
    /\ UNCHANGED <<vartype, arg, pre>>

GetDegree ==
    /\ op' = "degree"
    /\ out' = Degree(terms)
    /\ UNCHANGED <<terms, vartype, arg, pre>>

ToHising ==
    /\ op' = "to_hising"
    /\ out' = [status |-> "ok", value |-> to_hising(terms)]
    /\ UNCHANGED <<terms, vartype, arg, pre>>

ToHubo ==
    /\ op' = "to_hubo"
    /\ out' = [status |-> "ok", value |-> to_hubo(terms)]
    /\ UNCHANGED <<terms, vartype, arg, pre>>

Init ==
    /\ terms = BinaryPolynomial(<<>>)
    /\ vartype \in Vartypes
    /\ op = "new"
    /\ arg = None
    /\ pre = <<>>
    /\ out = None

Next ==
    \/ \E term \in SortedTuples, bias \in ItemBiases : SetItem(term, bias)
    \/ \E term \in SortedTuples : DelItem(term)
    \/ GetDegree
    \/ ToHising
    \/ ToHubo

Spec == Init /\ [][Next]_vars

\* C5: degree returns the size of the largest stored term, 0 for an empty
\* polynomial, after any sequence of term assignments and deletions.
C5_DegreeIsLargestTermSize ==
    op = "degree" => (out.status = "ok" /\ out.value = MaxTermSize(terms))

\* __eq__ of a polynomial (terms, vartype) with the result r of a converter
EqualsPolynomial(r) ==
    r.status = "ok" /\ r.vartype = vartype /\ AsMap(r.terms) = AsMap(terms)

\* C8: from_hising(*to_hising(P)) equals P for every SPIN polynomial P, and
\* from_hubo(*to_hubo(P)) equals P for every BINARY polynomial P, with and
\* without a constant term.
C8_ConvertersRoundTrip ==
    /\ (op = "to_hising" /\ vartype = "SPIN")
       => EqualsPolynomial(from_hising(out.value.h, out.value.J, out.value.offset))
    /\ (op = "to_hubo" /\ vartype = "BINARY")
       => EqualsPolynomial(from_hubo(out.value.H, out.value.offset))

(***************************************************************************)
(* Construction from a sequence of (term, bias) pairs; the terms are       *)
(* tuples of labels in any order, with repetitions.                        *)
(***************************************************************************)
RawTuples == SeqsUpTo(Vars, MaxTupleLen)

ConstructBiases == {Int2Rat(-1), Int2Rat(1)}

ConstructInputs == SeqsUpTo(RawTuples \X ConstructBiases, MaxTerms)

Construct(poly, vt) ==
    /\ terms' = BinaryPolynomial(poly)
    /\ vartype' = vt
    /\ op' = "__init__"
    /\ arg' = poly
    /\ out' = [status |-> "ok", value |-> None]
    /\ UNCHANGED pre

InitConstruct ==
    /\ terms = <<>>
    /\ vartype = None
    /\ op = "new"
    /\ arg = None
    /\ pre = <<>>
    /\ out = None

\* one polynomial is constructed
ConstructOnce ==
    /\ op = "new"
    /\ \E poly \in ConstructInputs : Construct(poly, "SPIN")

NextConstruct == ConstructOnce

SpecConstruct == InitConstruct /\ [][NextConstruct]_vars

\* the sum of the biases of the pairs of `poly` whose term has the variables k
RECURSIVE BiasSum(_, _)
BiasSum(poly, k) ==
    IF poly = <<>> THEN Zero
    ELSE RAdd(IF Range(Head(poly)[1]) = k THEN Head(poly)[2] ELSE Zero,
              BiasSum(Tail(poly), k))

\* C4: the constructed polynomial has exactly one entry for each distinct set
\* of variables among the input terms, and its bias is the sum of the biases
\* of all the input pairs with that set of variables.
C4_ConstructionSumsRepeatedTerms ==
    op = "__init__"
    => /\ Keys(terms) = {Range(arg[i][1]) : i \in DOMAIN arg}
       /\ Len(terms) = Cardinality(Keys(terms))
       /\ \A i \in DOMAIN terms : terms[i].bias = BiasSum(arg, terms[i].term)

C4_Witness ==
    /\ op = "__init__"
    /\ Len(arg) = 2
    /\ arg[1][1] # arg[2][1]
    /\ Len(arg[1][1]) = 2
    /\ Range(arg[1][1]) = Range(arg[2][1])
    /\ Len(terms) = 1
    /\ terms[1].bias = Int2Rat(2)

(***************************************************************************)
(* scale and normalize.  A range is a number r, read as [-|r|, |r|], or a  *)
(* pair (min, max); ignored_terms is None or a list of terms.              *)
(***************************************************************************)
\* (a number r is kept in both fields)
Number(k) == [kind |-> "number", lo |-> Int2Rat(k), hi |-> Int2Rat(k)]
Pair(lo, hi) == [kind |-> "pair", lo |-> Int2Rat(lo), hi |-> Int2Rat(hi)]
NoRange == [kind |-> "none", lo |-> Zero, hi |-> Zero]

\* lines 159-162
parse_range(r) ==
    IF r.kind = "number" THEN <<RNeg(RAbs(r.lo)), RAbs(r.lo)>> ELSE <<r.lo, r.hi>>

\* lines 164-167 and 199-202
IgnoredSet(ignored_terms) ==
    IF ignored_terms = None THEN {}
    ELSE {asfrozenset(ignored_terms[i]) : i \in DOMAIN ignored_terms}

\* lines 204-206
scale(t, scalar, ignored_terms) ==
    [i \in DOMAIN t |->
        IF t[i].term \in IgnoredSet(ignored_terms) THEN t[i]
        ELSE [t[i] EXCEPT !.bias = RMul(t[i].bias, scalar)]]

\* lines 177-189: the extremes of the linear and of the higher-order biases.
\* The higher-order branch compares with lmin and lmax, as the code does.
RECURSIVE CurrentRanges(_, _)
CurrentRanges(e, items) ==
    IF items = <<>> THEN e
    ELSE LET n == Cardinality(Head(items).term)
             bias == Head(items).bias
         IN  CurrentRanges(
                 IF n = 1
                 THEN [e EXCEPT !.lmin = IF RLess(bias, e.lmin) THEN bias ELSE e.lmin,
                                !.lmax = IF RLess(e.lmax, bias) THEN bias ELSE e.lmax]
                 ELSE IF n > 1
                 THEN [e EXCEPT !.pmin = IF RLess(bias, e.lmin) THEN bias ELSE e.pmin,
                                !.pmax = IF RLess(e.lmax, bias) THEN bias ELSE e.pmax]
                 ELSE e,
                 Tail(items))

\* lines 191-192
InvScalar(e, lin_range, poly_range) ==
    RMax(RMax(RDiv(e.lmin, lin_range[1]), RDiv(e.lmax, lin_range[2])),
         RMax(RDiv(e.pmin, poly_range[1]), RDiv(e.pmax, poly_range[2])))

\* line 195 with scale(inv_scalar) in place of scale(1 / inv_scalar)
ApplyInvScalarNoReciprocal(t, inv_scalar, ignored_terms) ==
    IF inv_scalar # Zero THEN scale(t, inv_scalar, ignored_terms) ELSE t

\* lines 194-195
ApplyInvScalar(t, inv_scalar, ignored_terms) ==
    IF inv_scalar # Zero THEN scale(t, RDiv(One, inv_scalar), ignored_terms) ELSE t

\* lines 156-195: the status and the entries after the call.  A range with
\* an endpoint 0 makes a division of lines 191-192 raise ZeroDivisionError.
normalize(t, bias_range, poly_range, ignored_terms) ==
    LET lin_range == parse_range(bias_range)
        pol_range == parse_range(IF poly_range.kind = "none" THEN bias_range ELSE poly_range)
        e == CurrentRanges([lmin |-> Zero, lmax |-> Zero, pmin |-> Zero, pmax |-> Zero], t)
    IN  IF Zero \in {lin_range[1], lin_range[2], pol_range[1], pol_range[2]}
        THEN [status |-> "ZeroDivisionError", terms |-> t]
        ELSE [status |-> "ok",
              terms |-> ApplyInvScalar(t, InvScalar(e, lin_range, pol_range), ignored_terms)]

NormalizeTuples == {<<>>, <<1>>, <<2>>, <<1, 2>>, <<1, 2, 3>>}

NormalizePolynomials ==
    {BinaryPolynomial(p) : p \in SeqsUpTo(NormalizeTuples \X Biases, MaxTerms)}

BiasRanges == {Number(1), Number(2), Pair(-1, 2)}
PolyRanges == {NoRange, Number(1), Pair(-2, 1)}
IgnoredInputs == {None, <<<<>>>>}
Scalars == {Int2Rat(2), Int2Rat(-1), Rat(1, 2)}

Normalize(bias_range, poly_range, ignored_terms) ==
    /\ \E r \in {normalize(terms, bias_range, poly_range, ignored_terms)} :
        /\ terms' = r.terms
        /\ out' = [status |-> r.status, value |-> None]
    /\ op' = "normalize"
    /\ arg' = [bias_range |-> bias_range, poly_range |-> poly_range,
               ignored_terms |-> ignored_terms]
    /\ pre' = terms
    /\ UNCHANGED vartype

Scale(scalar, ignored_terms) ==
    /\ terms' = scale(terms, scalar, ignored_terms)
    /\ op' = "scale"
    /\ arg' = [scalar |-> scalar, ignored_terms |-> ignored_terms]
    /\ pre' = terms
    /\ out' = [status |-> "ok", value |-> None]
    /\ UNCHANGED vartype

InitNormalize ==
    /\ terms \in NormalizePolynomials
    /\ vartype = "SPIN"
    /\ op = "new"
    /\ arg = None
    /\ pre = <<>>
    /\ out = None

\* one call on each constructed polynomial
NormalizeOnce ==
    /\ op = "new"
    /\ \E b \in BiasRanges, q \in PolyRanges, g \in IgnoredInputs : Normalize(b, q, g)

ScaleOnce ==
    /\ op = "new"
    /\ \E x \in Scalars, g \in IgnoredInputs : Scale(x, g)

NextNormalize == NormalizeOnce \/ ScaleOnce

SpecNormalize == InitNormalize /\ [][NextNormalize]_vars

(***************************************************************************)
(* Properties of normalize.                                                *)
(***************************************************************************)
Normalized == op = "normalize"

LinRange == parse_range(arg.bias_range)
PolRange ==
    parse_range(IF arg.poly_range.kind = "none" THEN arg.bias_range ELSE arg.poly_range)

Within(bias, range) == RLeq(range[1], bias) /\ RLeq(bias, range[2])

\* every linear bias of t within bias_range, every higher-order one within poly_range
InRange(t) ==
    \A i \in DOMAIN t :
        /\ Cardinality(t[i].term) = 1 => Within(t[i].bias, LinRange)
        /\ Cardinality(t[i].term) > 1 => Within(t[i].bias, PolRange)

ZeroInside(range) == RLess(range[1], Zero) /\ RLess(Zero, range[2])

\* every entry of `terms` is the entry of `pre` with its bias times one factor
CommonFactor ==
    /\ Len(terms) = Len(pre)
    /\ \A i \in DOMAIN pre : terms[i].term = pre[i].term
    /\ \A i, j \in DOMAIN pre :
           RMul(terms[i].bias, pre[j].bias) = RMul(terms[j].bias, pre[i].bias)
    /\ \A i \in DOMAIN pre : pre[i].bias = Zero => terms[i].bias = Zero

\* C6: after normalize with no ignored terms, on a polynomial with a nonzero
\* non-constant bias and ranges with 0 strictly inside, every linear bias is
\* within bias_range and every higher-order bias within poly_range, all
\* biases having been multiplied by one common factor.
C6_NormalizeBringsBiasesInRange ==
    (/\ Normalized
     /\ arg.ignored_terms = None
     /\ ZeroInside(LinRange) /\ ZeroInside(PolRange)
     /\ \E i \in DOMAIN pre : pre[i].term # {} /\ pre[i].bias # Zero)
    => (out.status = "ok" /\ InRange(terms) /\ CommonFactor)

\* C7 as stated: if every linear bias is within bias_range and every
\* higher-order bias within poly_range, normalize changes no bias.
C7_InRangeMeansNoScaling ==
    (Normalized /\ InRange(pre)) => terms = pre

\* some linear bias of t is an endpoint of bias_range
LinearOnBoundary(t) ==
    \E i \in DOMAIN t :
        Cardinality(t[i].term) = 1 /\ t[i].bias \in {LinRange[1], LinRange[2]}

AllNonConstantZero(t) == \A i \in DOMAIN t : t[i].term # {} => t[i].bias = Zero

\* C7 amended: if every linear bias is within bias_range and every
\* higher-order bias within poly_range (0 strictly inside both), normalize
\* multiplies every bias it does not ignore by one common factor >= 1 and
\* leaves the ignored ones alone; no bias changes when all linear and
\* higher-order biases are zero or some linear bias is an endpoint of
\* bias_range.
C7_InRangeScalesUpByCommonFactor ==
    (/\ Normalized
     /\ ZeroInside(LinRange) /\ ZeroInside(PolRange)
     /\ InRange(pre))
    => /\ out.status = "ok"
       /\ Len(terms) = Len(pre)
       /\ \A i \in DOMAIN pre : terms[i].term = pre[i].term
       /\ \A i \in DOMAIN pre :
              pre[i].term \in IgnoredSet(arg.ignored_terms) => terms[i].bias = pre[i].bias
       /\ \E f \in {RDiv(terms[i].bias, pre[i].bias) :
                       i \in {j \in DOMAIN pre : pre[j].bias # Zero}} \cup {One} :
              /\ RLeq(One, f)
              /\ \A i \in DOMAIN pre :
                     pre[i].term \notin IgnoredSet(arg.ignored_terms)
                     => terms[i].bias = RMul(pre[i].bias, f)
       /\ (AllNonConstantZero(pre) \/ LinearOnBoundary(pre)) => terms = pre

C7_Witness ==
    /\ Normalized /\ out.status = "ok"
    /\ ZeroInside(LinRange) /\ ZeroInside(PolRange)
    /\ InRange(pre)
    /\ Len(pre) = 2
    /\ \E i, j \in DOMAIN pre :
           Cardinality(pre[i].term) = 1 /\ Cardinality(pre[j].term) > 1
           /\ pre[i].bias # Zero /\ pre[j].bias # Zero
    /\ arg.ignored_terms = None
    /\ terms # pre

(***************************************************************************)
(* Energy evaluation: the labels are a list of distinct labels, each       *)
(* sample a row with one value per label, from the vartype's domain.       *)
(***************************************************************************)
Values(vt) == IF vt = "SPIN" THEN {-1, 1} ELSE {0, 1}

\* the lists of distinct labels
LabelLists == {l \in SeqsUpTo(Vars, Cardinality(Vars)) : Cardinality(Range(l)) = Len(l)}

CallEnergies(labels, samples) ==
    /\ op' = "energies"
    /\ arg' = [labels |-> labels, samples |-> samples]
    /\ out' = Energies(terms, labels, samples)
    /\ UNCHANGED <<terms, vartype, pre>>

CallEnergy(labels, sample) ==
    /\ op' = "energy"
    /\ arg' = [labels |-> labels, samples |-> <<sample>>]
    /\ out' = Energy(terms, labels, sample)
    /\ UNCHANGED <<terms, vartype, pre>>

InitEnergies ==
    /\ terms \in Constructed(RelabelBiases)
    /\ vartype \in Vartypes
    /\ op = "new"
    /\ arg = None
    /\ pre = <<>>
    /\ out = None

\* one call on each constructed polynomial
EnergiesOnce ==
    /\ op = "new"
    /\ \E labels \in LabelLists :
           \E samples \in SeqsUpTo([1..Len(labels) -> Values(vartype)], MaxSamples) :
               CallEnergies(labels, samples)

EnergyOnce ==
    /\ op = "new"
    /\ \E labels \in LabelLists :
           \E sample \in [1..Len(labels) -> Values(vartype)] : CallEnergy(labels, sample)

NextEnergies == EnergiesOnce \/ EnergyOnce

SpecEnergies == InitEnergies /\ [][NextEnergies]_vars

\* row i of the batch as an assignment: a function from the labels to values
Assignment(i) ==
    [v \in Range(arg.labels) |->
        arg.samples[i][CHOOSE j \in DOMAIN arg.labels : arg.labels[j] = v]]

\* the call returned, for each assignment of the batch, the sum over the terms
\* of bias times the product of the values of the term's variables
EnergiesAreTermSums ==
    /\ out.status = "ok"
    /\ op = "energies" =>
           /\ Len(out.value) = Len(arg.samples)
           /\ \A i \in DOMAIN arg.samples :
                  /\ out.value[i] = PolyValue(terms, Assignment(i))
                  /\ Energy(terms, arg.labels, arg.samples[i])
                         = [status |-> "ok", value |-> out.value[i]]
    /\ op = "energy" => out.value = PolyValue(terms, Assignment(1))

\* C9: energies on a batch of N assignments (each giving a value to every
\* variable of the polynomial) returns a vector of length N whose i-th entry
\* is the energy of the i-th assignment on its own, the sum over the terms of
\* bias times the product of the values of the term's variables (the empty
\* term adding its bias); energy on one assignment is that value.
C9_EnergiesMatchEnergy ==
    (op \in {"energies", "energy"} /\ Variables(terms) \subseteq Range(arg.labels))
    => EnergiesAreTermSums

\* the same for assignments with at least one label
EnergiesMatchEnergyWhenLabelled ==
    (/\ op \in {"energies", "energy"}
     /\ Variables(terms) \subseteq Range(arg.labels)
     /\ arg.labels # <<>>)
    => EnergiesAreTermSums

=============================================================================
